---- MODULE Spec2Model ----
(***************************************************************************)
(* cbuild: a recipe driven source build orchestrator (src/cbuild1.0.cpp).  *)
(* One name-version is modelled.  Every command line invocation of the     *)
(* tool (main + one cmd_* handler) is one action; the outcomes of the      *)
(* external commands it starts (curl, tar, git, the hooks, ...) and the    *)
(* environment it finds (zstd, fakeroot, $DESTDIR) are the action's        *)
(* inputs.  `log` holds the events of the last invocation in the order     *)
(* the handler issued them, `result` how the process ended.                *)
(***************************************************************************)
EXTENDS Integers, Sequences, FiniteSets, TLC

\* ------------------------------------------------------------------ bounds
MaxRuns == 3        \* invocations of the tool in one behaviour
MaxCmds == 3        \* external commands one stage invocation starts
NPaths == 2         \* distinct relative file paths a hook can write

Paths == 1..NPaths

\* an entry under the root that is not a regular file: a directory
SubDir == 0

\* what an install hook can leave under its target: any set of the files,
\* or a directory, alone or beside the first file
HookTrees == (SUBSET Paths) \cup {{SubDir}, {SubDir, 1}}

\* ------------------------------------------------------- program constants
RcFault == 100      \* main's catch block
RcNoRecipe == 1     \* main: ensure_recipe(...) non-zero
RcIntegrity == 3    \* cmd_fetch: sha256 mismatch
RcExtract == 4      \* cmd_extract: nothing to extract / source missing
RcNoWork == 5       \* cmd_patch: work tree missing
RcPatchEntry == 6   \* cmd_patch: local patch missing / git entry without @ref
RcNoWorkBuild == 7  \* cmd_build_all: work tree missing

VARIABLES
    recipe,         \* the loaded Recipe (fixed during a behaviour)
    pdir,           \* the recipe's patch directory: its entries as enumerated (fixed)
    destExists,     \* destdir_pkg(c,r) exists
    dest,           \* regular files under destdir_pkg(c,r), relative paths
    manifestExists, \* install_manifest(c,r) exists
    manifest,       \* the paths it lists
    snapZst,        \* snapshot_tar(c,r): <name>-<version>.tar.zst
    snapGz,         \* its gzip sibling <name>-<version>.tar.tar.gz
    workExists,     \* work_dir(c,r) exists
    work,           \* what the work tree holds
    srcFiles,       \* sources/<file>: content per derived file name, Absent if none
    gitDir,         \* sources/<name>-git exists
    rejected,       \* history: files whose digest a fetch found different
    log,            \* events of the last invocation, in program order
    result,         \* how the last invocation ended
    runs,           \* number of invocations so far
    exits,          \* history: the error class and exit status of main's early ends
    procs,          \* concurrent invocations: each one's command, position and end
    ldd,            \* per file under the root: is it ELF, and what ldd prints for it
    report,         \* the lines revdep printed last
    stage,          \* one invocation step by step: handler, command and Spinner thread
    exec            \* the last exec_cmd call: how the command ended, what was returned

\* what the stage handlers neither read nor write
aux == <<exits, procs, ldd, report, stage, exec>>

vars == <<recipe, pdir, destExists, dest, manifestExists, manifest, snapZst, snapGz,
          workExists, work, srcFiles, gitDir, rejected, log, result, runs, aux>>

\* ------------------------------------------------------------- file values
NoArchive == [present |-> FALSE, files |-> {}, by |-> "none", valid |-> FALSE]
Archive(files, by) == [present |-> TRUE, files |-> files, by |-> by, valid |-> TRUE]
BrokenArchive(by) == [present |-> TRUE, files |-> {}, by |-> by, valid |-> FALSE]

\* destdir_pkg(c,r) as the shell sees it, and two other values of $DESTDIR
DestPath == "destdir/name-version"
AltPath == "/alt"
Unset == ""

\* ------------------------------------------------------------ shell words
\* A hook text is a sequence of shell words; a word is either plain or an
\* assignment DESTDIR=<value>, the only kind of word the code looks for.
Word(s) == [k |-> "word", s |-> s, v |-> ""]
Assign(v) == [k |-> "assign", s |-> "DESTDIR", v |-> v]
VarRef == "${DESTDIR}"

HookMake == <<Word("make"), Word("install")>>
HookMakeAlt == <<Word("make"), Word("install"), Assign(AltPath)>>
HookScript == <<Word("./install.sh")>>
InstallHooks == {<<>>, HookMake, HookMakeAlt, HookScript}

\* ---------------------------------------------------------------- sources
\* A url item is its identity and the file name after its last '/'; the
\* artifact a url serves has the url's id as content, and distinct contents
\* have distinct digests.  An empty list item is NoUrl, resp. NoSum.
Url(id, file) == [id |-> id, file |-> file]
NoUrl == Url(0, 0)
UrlA == Url(1, 1)
UrlB == Url(2, 2)
NoSum == 0
Absent == -1
Corrupt == 9
DefaultTar == 0

\* the vcs field: empty, "git:<url>", or anything that does not begin with "git:"
NoVcs == ""
VcsGit == "git:"
VcsOther == "svn:"
FileNames == {DefaultTar, UrlA.file, UrlB.file}

\* Recipe::split_list: the items of a comma list, empty ones dropped
split_list(s, empty) == SelectSeq(s, LAMBDA x : x # empty)

\* source_paths: one path per url; none for a VCS-only recipe; else the
\* fictitious <name>-<version>.tar
source_paths(r) ==
    LET urls == split_list(r.url, NoUrl)
    IN  IF urls = <<>>
        THEN IF r.vcs # NoVcs THEN <<>> ELSE <<DefaultTar>>
        ELSE [i \in 1..Len(urls) |-> urls[i].file]

\* sha256_file
sha256_file(files, f) == files[f]

\* the work tree as fs::create_directories(dst) leaves it
EmptyTree ==
    [unpacked |-> <<>>, git |-> FALSE, fromVcs |-> FALSE, applied |-> <<>>, tmpref |-> FALSE]

\* ------------------------------------------------- the install command line
\* ensure_destdir_in_install: cmd.find("DESTDIR=") != npos ? cmd : cmd + " DESTDIR=${DESTDIR}"
HasDestdirAssign(cmd) == \E i \in 1..Len(cmd) : cmd[i].k = "assign"

ensure_destdir_in_install(cmd) ==
    IF HasDestdirAssign(cmd) THEN cmd ELSE Append(cmd, Assign(VarRef))

\* cmd_install: "cd wd && " + fr + " DESTDIR=" + dest + " " + base, the part after &&
InstallCommand(hook, fr) ==
    LET base == IF hook = <<>> THEN HookMake ELSE hook
    IN  (IF fr THEN <<Word("fakeroot")>> ELSE <<>>)
            \o <<Assign(DestPath)>> \o ensure_destdir_in_install(base)

\* What bash -lc does with that line.  Words are expanded in the invoking
\* shell, where DESTDIR has its ambient value: the assignments that precede
\* a command reach only that command's environment.
Expand(w, ambient) == IF w.k = "assign" /\ w.v = VarRef THEN Assign(ambient) ELSE w

RECURSIVE LeadingAssigns(_)
LeadingAssigns(ws) ==
    IF ws = <<>> \/ ws[1].k # "assign" THEN 0 ELSE 1 + LeadingAssigns(Tail(ws))

LastAssign(ws, default) ==
    LET I == {i \in 1..Len(ws) : ws[i].k = "assign"}
    IN  IF I = {} THEN default ELSE ws[CHOOSE i \in I : \A j \in I : j <= i].v

\* make takes a variable given on its command line before the environment's;
\* any other program (./install.sh) sees the environment only.
Exec(prog, args, env) ==
    IF prog = "make" THEN [found |-> TRUE, target |-> LastAssign(args, env)]
    ELSE [found |-> TRUE, target |-> env]

\* fakeroot runs its arguments as a command: a first argument DESTDIR=...
\* is taken as the command's name and is not found.
ShellRun(line, ambient) ==
    LET ws == [i \in 1..Len(line) |-> Expand(line[i], ambient)]
        n == LeadingAssigns(ws)
        env == IF n = 0 THEN ambient ELSE ws[n].v
        rest == SubSeq(ws, n + 1, Len(ws))
    IN  IF rest[1].s = "fakeroot"
        THEN IF rest[2].k = "assign" THEN [found |-> FALSE, target |-> "none"]
             ELSE Exec(rest[2].s, SubSeq(rest, 3, Len(rest)), env)
        ELSE Exec(rest[1].s, Tail(rest), env)

\* ------------------------------------------------- concurrent invocations
\* Two processes of the tool on the same name-version.  pc is the statement
\* of cmd_install / cmd_remove the process is about to execute, recorded the
\* manifest it wrote, code its exit status (NoCode while it runs).
Procs == {1, 2}
NoCode == -1
Idle == [cmd |-> "none", pc |-> "idle", recorded |-> {}, code |-> NoCode]

\* ----------------------------------------------------------------- revdep
\* Library names are ordered as std::string orders them.  A file is not ELF,
\* or ELF with the lines "ldd | awk | sed" prints for it, in their order.
Libs == {1, 2}
NotElf == [elf |-> FALSE, libs |-> <<>>]
LddOutputs == {<<>>, <<1>>, <<2, 1>>, <<2, 2>>}
FileKinds == {NotElf} \cup {[elf |-> TRUE, libs |-> o] : o \in LddOutputs}

\* --------------------------------------------------------------- exec_cmd
\* How the process popen started (sh -c "<cmd> 2>&1") ended: popen could not
\* start it, it exited with a status, a signal terminated it (with or
\* without a core dump), or pclose failed.
Signals == {1, 2, 9, 11, 15}
Endings ==
    {[how |-> h, n |-> 0, core |-> FALSE] : h \in {"popen_fails", "pclose_fails"}}
        \cup {[how |-> "exit", n |-> n, core |-> FALSE] : n \in 0..255}
        \cup {[how |-> "signal", n |-> n, core |-> c] : n \in Signals, c \in BOOLEAN}
NoExec == [ending |-> [how |-> "none", n |-> 0, core |-> FALSE], rc |-> 0]

\* ------------------------------------------------------ a stage in time
\* pc: "idle", "handler" (between commands), "waiting" (inside exec_cmd),
\* "joining" (inside Spinner::stop) or "done" (the process is gone).
\* left: commands the handler has yet to start; ran: commands that exited.
\* hung: the command waited for never exits.
\* spin: the Spinner thread, "none", "spinning", "stopping" (running is
\* false) or "exited"; frame: its i % 4.
NoStage ==
    [cmd |-> "none", pc |-> "idle", left |-> 0, ran |-> 0, hung |-> FALSE,
     spin |-> "none", frame |-> 0]

\* ------------------------------------------------------------ log events
\* file: the file of a patch directory a command was run for, 0 if none
Ev(op) == [op |-> op, arg |-> 0, file |-> 0]
EvAt(op, arg) == [op |-> op, arg |-> arg, file |-> 0]
Has(l, op) == \E i \in 1..Len(l) : l[i].op = op

\* exec_cmd: the command is issued; a non-zero status is noted after it
Ran(op, i, rc) == <<EvAt(op, i)>> \o (IF rc # 0 THEN <<EvAt("nonzero", i)>> ELSE <<>>)

\* --------------------------------------------------- how an invocation ends
\* handler: the cmd_* function was entered.
\* spinner: "unused" (never started), "joined" (sp.stop() ran) or "running"
\* (the handler left with the thread joinable: ~thread calls std::terminate).
\* post: how the postinstall / postremove hook ended, "none" if it did not run.
\* snap: how remove's snapshot command ended, "none" if it did not run.
\* installed: what the root held when the install hook had succeeded.
\* preSrc: the source files as fetch found them.
\* preRef: refs/tmp/cbuild existed in the work tree when patch began.
\* preWork: the work tree as extract found it.
\* preManifest: the manifest's lines as install found it.
EndRec(cmd, kind, code, spinner, threw) ==
    [cmd |-> cmd, handler |-> TRUE, kind |-> kind, code |-> code, spinner |-> spinner,
     threw |-> threw, hook |-> "none", target |-> "none", restored |-> "none",
     preExists |-> FALSE, pre |-> {}, hadManifest |-> FALSE, preApplied |-> 0,
     post |-> "none", snap |-> "none", installed |-> {}, preSrc |-> <<>>,
     preRef |-> FALSE, preWork |-> EmptyTree, preManifest |-> {}]

\* return rc from the handler, through main
Finish(cmd, rc, spinner) ==
    IF spinner = "running" THEN EndRec(cmd, "abort", 0, spinner, FALSE)
    ELSE EndRec(cmd, "exit", rc, spinner, FALSE)

\* an exception leaves the handler; main's catch returns 100 if unwinding gets there
Fault(cmd, spinner) ==
    IF spinner = "running" THEN EndRec(cmd, "abort", 0, spinner, TRUE)
    ELSE EndRec(cmd, "exit", RcFault, spinner, TRUE)

\* ------------------------------------------------------------- snapshots
\* make_snapshot: nothing for a missing or empty root; else one strict
\* command, tar | zstd > snap when zstd is found, tar -czf gz otherwise.
\* A failing command has already created its output file.
make_snapshot_Lenient(dE, d, zst, gz, hasZstd, ok, by) ==
    IF dE /\ d # {}
    THEN IF hasZstd
         THEN [zst |-> IF ok THEN Archive(d, by) ELSE BrokenArchive(by), gz |-> gz,
               threw |-> FALSE, wrote |-> ok]
         ELSE [zst |-> zst, gz |-> IF ok THEN Archive(d, by) ELSE BrokenArchive(by),
               threw |-> FALSE, wrote |-> ok]
    ELSE [zst |-> zst, gz |-> gz, threw |-> FALSE, wrote |-> FALSE]

make_snapshot_AlsoMissingRoot(dE, d, zst, gz, hasZstd, ok, by) ==
    IF hasZstd
    THEN [zst |-> IF ok THEN Archive(d, by) ELSE BrokenArchive(by), gz |-> gz,
          threw |-> ~ok, wrote |-> ok]
    ELSE [zst |-> zst, gz |-> IF ok THEN Archive(d, by) ELSE BrokenArchive(by),
          threw |-> ~ok, wrote |-> ok]

make_snapshot(dE, d, zst, gz, hasZstd, ok, by) ==
    IF dE /\ d # {}
    THEN IF hasZstd
         THEN [zst |-> IF ok THEN Archive(d, by) ELSE BrokenArchive(by), gz |-> gz,
               threw |-> ~ok, wrote |-> ok]
         ELSE [zst |-> zst, gz |-> IF ok THEN Archive(d, by) ELSE BrokenArchive(by),
               threw |-> ~ok, wrote |-> ok]
    ELSE [zst |-> zst, gz |-> gz, threw |-> FALSE, wrote |-> FALSE]

\* restore_snapshot: returns at once when neither archive exists; else
\* recreates the root empty and unpacks one archive with a strict command.
restore_snapshot(d, zst, gz, hasZstd, ok) ==
    IF ~zst.present /\ ~gz.present
    THEN [dest |-> d, threw |-> FALSE, used |-> "none"]
    ELSE IF hasZstd /\ zst.present
         THEN IF ok /\ zst.valid
              THEN [dest |-> zst.files, threw |-> FALSE, used |-> "zst"]
              ELSE [dest |-> {}, threw |-> TRUE, used |-> "zst"]
         ELSE IF gz.present
              THEN IF ok /\ gz.valid
                   THEN [dest |-> gz.files, threw |-> FALSE, used |-> "gz"]
                   ELSE [dest |-> {}, threw |-> TRUE, used |-> "gz"]
              ELSE [dest |-> {}, threw |-> FALSE, used |-> "none"]

\* ---------------------------------------------------------------- install
\* run_step: an empty hook is a success, else the status of the command
run_step_Dropped(declared, rc) == 0

run_step(declared, rc) == IF declared THEN rc ELSE 0

\* fs::is_regular_file(p.path()) in the loop of collect_manifest
is_regular_file_Any(p) == TRUE

is_regular_file(p) == p \in Paths

\* collect_manifest: one line per entry of the recursive walk that is a
\* regular file, its path relative to the root; each entry is visited once
RECURSIVE collect_manifest(_)
collect_manifest(d) ==
    IF d = {} THEN <<>>
    ELSE LET p == CHOOSE x \in d : \A y \in d : x <= y
         IN  (IF is_regular_file(p) THEN <<p>> ELSE <<>>) \o collect_manifest(d \ {p})

\* cmd_install after the install command returned 0: strip_binaries if
\* r.strip, collect_manifest (its lines), run_step("postinstall", ...)
after_install_PostinstallFirst(lines) ==
    (IF recipe.postinstall THEN <<Ev("postinstall")>> ELSE <<>>)
        \o (IF recipe.strip THEN <<Ev("strip")>> ELSE <<>>) \o <<Ev("manifest")>>
        \o [i \in 1..Len(lines) |-> EvAt("line", lines[i])]

after_install(lines) ==
    (IF recipe.strip THEN <<Ev("strip")>> ELSE <<>>) \o <<Ev("manifest")>>
        \o [i \in 1..Len(lines) |-> EvAt("line", lines[i])]
        \o (IF recipe.postinstall THEN <<Ev("postinstall")>> ELSE <<>>)

\* cmd_install.  Inputs: hasZstd, fr (fakeroot found), ambient ($DESTDIR of
\* the calling environment), hookRc and hookW (exit status of the install
\* command and the files it wrote under its target), restoreOk, postRc.
cmd_install(hasZstd, fr, ambient, hookRc, hookW, restoreOk, postRc) ==
    LET snap == make_snapshot(TRUE, {}, snapZst, snapGz, hasZstd, TRUE, "install")
        sh == ShellRun(InstallCommand(recipe.install, fr), ambient)
        ran == workExists /\ sh.found
        rc == IF ~workExists THEN 1 ELSE IF ~sh.found THEN 127 ELSE hookRc
        d1 == IF ran /\ sh.target = DestPath THEN hookW ELSE {}
        rs == restore_snapshot(d1, snap.zst, snap.gz, hasZstd, restoreOk)
        log1 == <<Ev("wipe")>> \o (IF snap.wrote THEN <<Ev("snapshot")>> ELSE <<>>) \o <<Ev("hook")>>
        lines == collect_manifest(d1)
        note(e) == [e EXCEPT !.hook = IF rc = 0 THEN "ok" ELSE "failed",
                             !.installed = IF rc = 0 THEN d1 ELSE {},
                             !.post = IF rc # 0 \/ ~recipe.postinstall THEN "none"
                                      ELSE IF postRc = 0 THEN "ok" ELSE "failed",
                             !.target = IF ran THEN sh.target ELSE "none",
                             !.restored = IF rc # 0 THEN rs.used ELSE "none",
                             !.preExists = destExists, !.pre = dest,
                             !.hadManifest = manifestExists, !.preManifest = manifest]
    IN  IF rc # 0
        THEN [destExists |-> TRUE, dest |-> rs.dest,
              manifestExists |-> manifestExists, manifest |-> manifest,
              zst |-> snap.zst, gz |-> snap.gz,
              log |-> log1 \o (IF rs.used # "none" THEN <<Ev("restore")>> ELSE <<>>),
              result |-> note(IF rs.threw THEN Fault("install", "unused")
                              ELSE Finish("install", rc, "unused"))]
        ELSE [destExists |-> TRUE, dest |-> d1,
              manifestExists |-> TRUE, manifest |-> {lines[i] : i \in 1..Len(lines)},
              zst |-> snap.zst, gz |-> snap.gz,
              log |-> log1 \o after_install(lines),
              result |-> note(Finish("install", run_step(recipe.postinstall, postRc), "unused"))]

\* ----------------------------------------------------------------- remove
\* the loop over the manifest's lines: fs::remove(dest/rel, ec), errors dropped
RECURSIVE RmEvents(_)
RmEvents(S) ==
    IF S = {} THEN <<>>
    ELSE LET p == CHOOSE x \in S : \A y \in S : x <= y
         IN  <<EvAt("rm", p)>> \o RmEvents(S \ {p})

\* the two branches of cmd_remove after the snapshot
remove_files_NoCleanup(mE, m, d) ==
    IF mE
    THEN [destExists |-> FALSE, dest |-> {}, log |-> RmEvents(m) \o <<Ev("remove_all")>>]
    ELSE [destExists |-> TRUE, dest |-> d, log |-> <<Ev("warn")>>]

remove_files(mE, m, d) ==
    IF mE
    THEN [destExists |-> FALSE, dest |-> {}, log |-> RmEvents(m) \o <<Ev("remove_all")>>]
    ELSE [destExists |-> FALSE, dest |-> {}, log |-> <<Ev("warn"), Ev("remove_all")>>]

\* cmd_remove.  Inputs: hasZstd, snapOk (outcome of the snapshot command),
\* postRc (exit status of postremove).  exec_cmd(r.postremove, log) is a
\* statement: its value is dropped and both branches end in return 0.
cmd_remove(hasZstd, snapOk, postRc) ==
    LET snap == make_snapshot(destExists, dest, snapZst, snapGz, hasZstd, snapOk, "remove")
        log1 == IF snap.wrote THEN <<Ev("snapshot")>> ELSE <<>>
        rm == remove_files(manifestExists, manifest, dest)
        attempted == destExists /\ dest # {}
        note(e) == [e EXCEPT !.preExists = destExists, !.pre = dest,
                             !.hadManifest = manifestExists,
                             !.snap = IF ~attempted THEN "none"
                                      ELSE IF snapOk THEN "ok" ELSE "failed",
                             !.post = IF snap.threw \/ ~recipe.postremove THEN "none"
                                      ELSE IF postRc = 0 THEN "ok" ELSE "failed"]
    IN  IF snap.threw
        THEN [destExists |-> destExists, dest |-> dest,
              manifestExists |-> manifestExists, manifest |-> manifest,
              zst |-> snap.zst, gz |-> snap.gz, log |-> log1,
              result |-> note(Fault("remove", "unused"))]
        ELSE [destExists |-> rm.destExists, dest |-> rm.dest,
              manifestExists |-> manifestExists, manifest |-> manifest,
              zst |-> snap.zst, gz |-> snap.gz,
              log |-> log1 \o rm.log
                          \o (IF recipe.postremove THEN <<Ev("postremove")>> ELSE <<>>),
              result |-> note(Finish("remove", 0, "unused"))]

\* ------------------------------------------------------------------ fetch
\* The loop of cmd_fetch over the urls.  dl[i] is what curl does for url i if
\* it is run: "ok", "corrupt" (status 0, other bytes), "fail" (non-zero, no
\* file) or "partial" (non-zero, a truncated file left behind).
\* "if (!fs::exists(dst))": the download is run only for a missing destination
must_download_Always(files, dst) == TRUE

must_download(files, dst) == files[dst] = Absent

\* "if (i < sums.size() && !sums[i].empty())", after the download or its
\* skipping: whether the artifact at position i is verified
must_verify_OnlyDownloaded(need, sums, i) == need /\ i <= Len(sums) /\ sums[i] # NoSum

must_verify(need, sums, i) == i <= Len(sums) /\ sums[i] # NoSum

RECURSIVE fetch_urls(_, _, _, _)
fetch_urls(i, files, lg, dl) ==
    LET urls == split_list(recipe.url, NoUrl)
        sums == split_list(recipe.sha256, NoSum)
    IN  IF i > Len(urls) THEN [files |-> files, log |-> lg, rc |-> 0, bad |-> {}]
        ELSE LET dst == source_paths(recipe)[i]
                 need == must_download(files, dst)
                 got == IF ~need THEN files[dst]
                        ELSE IF dl[i] = "ok" THEN urls[i].id
                        ELSE IF dl[i] = "fail" THEN Absent ELSE Corrupt
                 files1 == [files EXCEPT ![dst] = got]
                 lg1 == lg \o (IF need THEN <<EvAt("curl", i)>> ELSE <<>>)
             IN  IF need /\ dl[i] \in {"fail", "partial"}
                 THEN [files |-> files1, log |-> lg1, rc |-> 22, bad |-> {}]
                 ELSE IF must_verify(need, sums, i)
                      THEN IF sha256_file(files1, dst) # sums[i]
                           THEN [files |-> files1, log |-> lg1 \o <<EvAt("sha256_differs", i)>>,
                                 rc |-> RcIntegrity, bad |-> {dst}]
                           ELSE fetch_urls(i + 1, files1, lg1 \o <<EvAt("sha256_ok", i)>>, dl)
                      ELSE fetch_urls(i + 1, files1, lg1, dl)

\* cmd_fetch.  Inputs: toolsOk (check_tools finds every tool), dl, vcsRc
\* (status of git clone, resp. git fetch), subRc (status of git submodule
\* update, which the code does not keep).
cmd_fetch(toolsOk, dl, vcsRc, subRc) ==
    LET u == fetch_urls(1, srcFiles, <<>>, dl)
        git == recipe.vcs = VcsGit
        vlog == IF ~git THEN <<>>
                ELSE IF ~gitDir THEN Ran("git_clone", 0, vcsRc)
                ELSE Ran("git_fetch", 0, vcsRc)
                        \o (IF recipe.submodules THEN Ran("submodule_update", 0, subRc)
                            ELSE <<>>)
        note(e) == [e EXCEPT !.preSrc = srcFiles]
    IN  IF ~toolsOk
        THEN [files |-> srcFiles, gitDir |-> gitDir, bad |-> {}, log |-> <<>>,
              result |-> note(Fault("fetch", "unused"))]
        ELSE IF u.rc # 0
        THEN [files |-> u.files, gitDir |-> gitDir, bad |-> u.bad, log |-> u.log,
              result |-> note(Finish("fetch", u.rc, "running"))]
        ELSE IF git /\ vcsRc # 0
        THEN [files |-> u.files, gitDir |-> gitDir, bad |-> {}, log |-> u.log \o vlog,
              result |-> note(Finish("fetch", vcsRc, "running"))]
        ELSE [files |-> u.files, gitDir |-> gitDir \/ git, bad |-> {}, log |-> u.log \o vlog,
              result |-> note(Finish("fetch", 0, "joined"))]

\* ---------------------------------------------------------------- extract
\* The loop of cmd_extract over source_paths: ux[i] is extract_one's status.
RECURSIVE extract_srcs(_, _, _, _)
extract_srcs(i, tree, lg, ux) ==
    LET srcs == source_paths(recipe)
    IN  IF i > Len(srcs) THEN [tree |-> tree, log |-> lg, rc |-> 0]
        ELSE IF srcFiles[srcs[i]] = Absent
        THEN [tree |-> tree, log |-> lg \o <<EvAt("source_missing", srcs[i])>>, rc |-> RcExtract]
        ELSE IF ux[i] # 0
        THEN [tree |-> tree, log |-> lg \o <<EvAt("unpack", srcs[i])>>, rc |-> ux[i]]
        ELSE extract_srcs(i + 1,
                          [tree EXCEPT !.unpacked = Append(@, srcFiles[srcs[i]])],
                          lg \o <<EvAt("unpack", srcs[i])>>, ux)

\* "if (fs::exists(dst)) fs::remove_all(dst); fs::create_directories(dst)":
\* the tree the unpacking starts from
fresh_tree_Kept(tree) == tree

fresh_tree(tree) == EmptyTree

\* "else if (!r.vcs.empty() && r.vcs.rfind("git:",0)==0)", the else of
\* "if (!srcs.empty())": the VCS working copy is used when the recipe
\* derives no source file
use_vcs_copy(srcs, vcs) == srcs = <<>> /\ vcs = VcsGit

\* cmd_extract.  Inputs: ux, cpRc (status of cp -a from the VCS copy).
cmd_extract(ux, cpRc) ==
    LET srcs == source_paths(recipe)
        base == fresh_tree(work)
        x == extract_srcs(1, base, <<>>, ux)
        rcCp == IF gitDir THEN cpRc ELSE 1
        note(e) == [e EXCEPT !.preApplied = Len(work.applied), !.preWork = work]
    IN  IF srcs # <<>>
        THEN [work |-> x.tree, log |-> x.log,
              result |-> note(Finish("extract", x.rc, IF x.rc = 0 THEN "joined" ELSE "running"))]
        ELSE IF use_vcs_copy(srcs, recipe.vcs)
        THEN IF rcCp # 0
             THEN [work |-> base, log |-> <<Ev("cp_vcs")>>,
                   result |-> note(Finish("extract", rcCp, "running"))]
             ELSE [work |-> [base EXCEPT !.git = TRUE, !.fromVcs = TRUE],
                   log |-> <<Ev("cp_vcs")>>
                              \o (IF recipe.submodules THEN <<Ev("submodule_update")>> ELSE <<>>),
                   result |-> note(Finish("extract", 0, "joined"))]
        ELSE [work |-> base, log |-> <<Ev("nothing_to_extract")>>,
              result |-> note(Finish("extract", RcExtract, "running"))]

\* ------------------------------------------------------------------ patch
\* A patch entry is VcsCherryPick (git:<url>@<ref>, at = the '@' is there),
\* RemoteURL, or a local path (exists / is a directory, in the recipe's
\* directory).
PGit(at) == [kind |-> "git", at |-> at, exists |-> TRUE, dir |-> FALSE]
PUrl == [kind |-> "url", at |-> FALSE, exists |-> TRUE, dir |-> FALSE]
PFile(exists) == [kind |-> "local", at |-> FALSE, exists |-> exists, dir |-> FALSE]
PDir == [kind |-> "local", at |-> FALSE, exists |-> TRUE, dir |-> TRUE]

\* oc[i] is what the external commands do for entry i.  For a patch file:
\* the first apply strategy that succeeds, or "fail" if none does; for a url
\* also "curl_fails".  For a git entry: every command succeeds, or the one
\* named fails.  An entry that starts no command has "none".
ApplyOutcomes == {"am", "p1", "p0", "fail"}
GitOutcomes == {"ok", "fetch_fails", "pick_fails", "delete_fails"}
CurlFails == "curl_fails"
NoOutcome == "none"
OutcomesOf(e) ==
    IF e.kind = "git" THEN (IF e.at THEN GitOutcomes ELSE {NoOutcome})
    ELSE IF e.kind = "url" THEN ApplyOutcomes \cup {CurlFails}
    ELSE IF e.exists THEN ApplyOutcomes ELSE {NoOutcome}

\* one outcome per entry of the list ps
RECURSIVE OutcomeSeqs(_)
OutcomeSeqs(ps) ==
    IF ps = <<>> THEN {<<>>}
    ELSE {<<o>> \o r : o \in OutcomesOf(ps[1]), r \in OutcomeSeqs(Tail(ps))}

\* exit status of the command of strategy k under outcome o; the status of a
\* command the code does not reach is held at 0
strategy_rc(o, k) ==
    IF k = "am" THEN (IF o = "am" THEN 0 ELSE 1)
    ELSE IF k = "p1" THEN (IF o \in {"am", "p1"} THEN 0 ELSE 1)
    ELSE (IF o = "fail" THEN 1 ELSE 0)

\* apply_patch_file: git am --3way; if that fails patch -p1; if that fails
\* patch -p0, whose status is the result
apply_patch_file_NoP0(i, o) ==
    LET am == strategy_rc(o, "am")
        p1 == strategy_rc(o, "p1")
    IN  IF am = 0 THEN [rc |-> 0, log |-> Ran("am", i, am)]
        ELSE [rc |-> p1, log |-> Ran("am", i, am) \o Ran("p1", i, p1)]

apply_patch_file(i, o) ==
    LET am == strategy_rc(o, "am")
        p1 == strategy_rc(o, "p1")
        p0 == strategy_rc(o, "p0")
    IN  IF am = 0 THEN [rc |-> 0, log |-> Ran("am", i, am)]
        ELSE IF p1 = 0 THEN [rc |-> p1, log |-> Ran("am", i, am) \o Ran("p1", i, p1)]
        ELSE [rc |-> p0,
              log |-> Ran("am", i, am) \o Ran("p1", i, p1) \o Ran("p0", i, p0)]

\* An entry of the patch directory: its file name (the number is its rank
\* in the order of std::sort on the paths), its extension, and whether
\* fs::is_regular_file holds of it.  pdir.listing is the directory in the
\* order fs::directory_iterator yields it; on the files in pdir.bad every
\* apply strategy fails, on the others the commands do as oc says.
DirEnt(name, ext, regular) == [name |-> name, ext |-> ext, regular |-> regular]

\* "std::sort(files.begin(), files.end())"
sort_files_AsEnumerated(files) == files

sort_files(files) == SortSeq(files, LAMBDA a, b : a.name < b.name)

\* "for (auto &p: files){ int rc = apply_patch_file(p, wd, log); if (rc) return rc; }"
RECURSIVE apply_files(_, _, _, _)
apply_files(files, k, i, o) ==
    IF k > Len(files) THEN [rc |-> 0, log |-> <<>>]
    ELSE LET f == files[k].name
             mark(l) == [j \in 1..Len(l) |-> [l[j] EXCEPT !.file = f]]
             one(a) ==
                 IF a.rc # 0 THEN [rc |-> a.rc, log |-> mark(a.log)]
                 ELSE LET rest(r) == [rc |-> r.rc, log |-> mark(a.log) \o r.log]
                      IN  rest(apply_files(files, k + 1, i, o))
         IN  one(apply_patch_file(i, IF f \in pdir.bad THEN "fail" ELSE o))

\* apply_patches_from_dir: the regular files of the directory with one of the
\* three extensions, sorted, each through apply_patch_file
apply_patches_from_dir(i, o) ==
    LET files == SelectSeq(pdir.listing,
                           LAMBDA e : e.regular /\ e.ext \in {".patch", ".diff", ".mbox"})
    IN  apply_files(sort_files(files), 1, i, o)

\* cherry_pick_ref: strict fetch into refs/tmp/cbuild (a failing fetch
\* throws and creates no reference), cherry-pick, then update-ref -d whose
\* status is dropped.  ref: what the entry does to refs/tmp/cbuild in the
\* work tree: "kept" as it was, "left" behind, or "deleted".
cherry_pick_ref_CleanupOnSuccess(i, o) ==
    IF o = "fetch_fails"
    THEN [rc |-> 1, threw |-> TRUE, ref |-> "kept", log |-> Ran("fetch_ref", i, 1)]
    ELSE IF o = "pick_fails"
    THEN [rc |-> 1, threw |-> FALSE, ref |-> "left",
          log |-> Ran("fetch_ref", i, 0) \o Ran("cherry_pick", i, 1)]
    ELSE [rc |-> 0, threw |-> FALSE,
          ref |-> IF o = "delete_fails" THEN "left" ELSE "deleted",
          log |-> Ran("fetch_ref", i, 0) \o Ran("cherry_pick", i, 0)
                     \o Ran("delete_ref", i, IF o = "delete_fails" THEN 1 ELSE 0)]

cherry_pick_ref(i, o) ==
    IF o = "fetch_fails"
    THEN [rc |-> 1, threw |-> TRUE, ref |-> "kept", log |-> Ran("fetch_ref", i, 1)]
    ELSE LET rc == IF o = "pick_fails" THEN 1 ELSE 0
             del == IF o = "delete_fails" THEN 1 ELSE 0
         IN  [rc |-> rc, threw |-> FALSE, ref |-> IF del # 0 THEN "left" ELSE "deleted",
              log |-> Ran("fetch_ref", i, 0) \o Ran("cherry_pick", i, rc)
                         \o Ran("delete_ref", i, del)]

\* one pass of the while loop of cmd_patch for entry i
patch_entry(i, e, o) ==
    IF e.kind = "git"
    THEN IF ~e.at THEN [rc |-> RcPatchEntry, threw |-> FALSE, ref |-> "kept", log |-> <<>>]
         ELSE cherry_pick_ref(i, o)
    ELSE IF e.kind = "url"
    THEN IF o = CurlFails
         THEN [rc |-> 22, threw |-> FALSE, ref |-> "kept", log |-> <<EvAt("curl_patch", i)>>]
         ELSE LET fetched(a) == [rc |-> a.rc, threw |-> FALSE, ref |-> "kept",
                                 log |-> <<EvAt("curl_patch", i)>> \o a.log]
              IN  fetched(apply_patch_file(i, o))
    ELSE IF ~e.exists THEN [rc |-> RcPatchEntry, threw |-> FALSE, ref |-> "kept", log |-> <<>>]
    ELSE LET local(a) == [rc |-> a.rc, threw |-> FALSE, ref |-> "kept", log |-> a.log]
         IN  IF e.dir THEN local(apply_patches_from_dir(i, o))
             ELSE local(apply_patch_file(i, o))

\* refs/tmp/cbuild after an entry, given whether it existed before
RefAfter(effect, ref) == IF effect = "kept" THEN ref ELSE effect = "left"

\* "if (rc) return rc" after each entry
entry_aborts_Never(rc) == FALSE

entry_aborts(rc) == rc # 0

\* the while loop of cmd_patch over the entries, in listed order
RECURSIVE patch_loop(_, _, _, _, _)
patch_loop(i, applied, ref, lg, oc) ==
    IF i > Len(recipe.patches)
    THEN [applied |-> applied, tmpref |-> ref, log |-> lg, rc |-> 0, threw |-> FALSE]
    ELSE LET pass(r, lg1, ref1) ==
                 IF r.threw
                 THEN [applied |-> applied, tmpref |-> ref1,
                       log |-> lg1 \o <<EvAt("entry_failed", i)>>, rc |-> r.rc, threw |-> TRUE]
                 ELSE IF r.rc # 0
                 THEN IF entry_aborts(r.rc)
                      THEN [applied |-> applied, tmpref |-> ref1,
                            log |-> lg1 \o <<EvAt("entry_failed", i)>>,
                            rc |-> r.rc, threw |-> FALSE]
                      ELSE patch_loop(i + 1, applied, ref1,
                                      lg1 \o <<EvAt("entry_failed", i)>>, oc)
                 ELSE patch_loop(i + 1, Append(applied, i), ref1, lg1, oc)
             entry(r) == pass(r, lg \o <<EvAt("entry", i)>> \o r.log, RefAfter(r.ref, ref))
         IN  entry(patch_entry(i, recipe.patches[i], oc[i]))

\* "if (r.patches.empty()) { log.info("Sem patches"); return 0; }", the first
\* statement of cmd_patch: whether there is anything to do
has_patches_Unchecked(ps) == TRUE

has_patches(ps) == ps # <<>>

\* cmd_patch.  Inputs: initOk (git init in ensure_git_repo), oc.
cmd_patch(initOk, oc) ==
    LET looped(p) ==
            [work |-> [work EXCEPT !.git = TRUE, !.applied = p.applied, !.tmpref = p.tmpref],
             log |-> (IF work.git THEN <<>> ELSE <<Ev("git_init")>>) \o p.log,
             result |-> [(IF p.threw THEN Fault("patch", "running")
                          ELSE Finish("patch", p.rc, IF p.rc = 0 THEN "joined" ELSE "running"))
                            EXCEPT !.preApplied = Len(work.applied),
                                   !.preRef = work.tmpref]]
    IN  IF ~has_patches(recipe.patches)
        THEN [work |-> work, log |-> <<>>, result |-> Finish("patch", 0, "unused")]
        ELSE IF ~workExists
        THEN [work |-> work, log |-> <<>>, result |-> Finish("patch", RcNoWork, "unused")]
        ELSE IF ~work.git /\ ~initOk
        THEN [work |-> work, log |-> <<Ev("git_init")>>, result |-> Fault("patch", "unused")]
        ELSE looped(patch_loop(1, work.applied, work.tmpref, <<>>, oc))

\* ------------------------------------------------------------------ build
\* the run_step calls of cmd_build_all, in the order of its statements
BuildSteps_ConfigureFirst == <<"prebuild", "configure", "prepare", "build">>

BuildSteps == <<"prebuild", "prepare", "configure", "build">>

\* "if(rc) return rc" after each run_step
step_aborts(rc) == rc # 0

\* cmd_build_all from its k-th run_step on.  rcs[k] is the exit status of the
\* k-th hook's command; an event carries the status of the command it names.
RECURSIVE build_from(_, _)
build_from(k, rcs) ==
    IF k > Len(BuildSteps) THEN [rc |-> 0, log |-> <<>>]
    ELSE LET declared == recipe[BuildSteps[k]]
             rc == run_step(declared, rcs[k])
             lg == IF declared THEN Ran(BuildSteps[k], rcs[k], rcs[k]) ELSE <<>>
             after(rest) == [rc |-> rest.rc, log |-> lg \o rest.log]
         IN  IF step_aborts(rc) THEN [rc |-> rc, log |-> lg]
             ELSE after(build_from(k + 1, rcs))

\* cmd_build_all.  It starts no Spinner.
cmd_build_all(rcs) ==
    IF ~workExists
    THEN [log |-> <<Ev("no_work")>>, result |-> Finish("build", RcNoWorkBuild, "unused")]
    ELSE LET done(b) == [log |-> b.log, result |-> Finish("build", b.rc, "unused")]
         IN  done(build_from(1, rcs))

\* -------------------------------------------------------------- the model
Sources ==
    { [url |-> <<UrlA>>, sha256 |-> <<UrlA.id>>, vcs |-> NoVcs, submodules |-> FALSE],
      [url |-> <<UrlA, UrlB>>, sha256 |-> <<UrlA.id>>, vcs |-> NoVcs, submodules |-> FALSE],
      [url |-> <<UrlA, UrlB>>, sha256 |-> <<NoSum, UrlB.id>>, vcs |-> NoVcs,
       submodules |-> FALSE],
      [url |-> <<UrlA, Url(3, UrlA.file)>>, sha256 |-> <<>>, vcs |-> NoVcs,
       submodules |-> FALSE],
      [url |-> <<>>, sha256 |-> <<>>, vcs |-> VcsGit, submodules |-> TRUE],
      [url |-> <<>>, sha256 |-> <<>>, vcs |-> NoVcs, submodules |-> FALSE],
      [url |-> <<UrlA>>, sha256 |-> <<>>, vcs |-> VcsGit, submodules |-> FALSE],
      [url |-> <<>>, sha256 |-> <<>>, vcs |-> VcsOther, submodules |-> FALSE] }

PatchLists ==
    { <<PFile(TRUE), PUrl, PFile(TRUE)>>,
      <<PFile(FALSE), PFile(TRUE)>>,
      <<PUrl, PGit(TRUE), PDir>>,
      <<PGit(FALSE), PUrl>> }

Hooks == [install : InstallHooks, postinstall : BOOLEAN, postremove : BOOLEAN, strip : {TRUE}]

\* a patch directory of two patch files, enumerated in name order
PlainDir ==
    [listing |-> <<DirEnt(1, ".patch", TRUE), DirEnt(2, ".patch", TRUE)>>, bad |-> {}]

\* what a patch directory can hold: patch files of each extension, a file
\* of another extension and a subdirectory named like a patch file
DirEntries ==
    { DirEnt(1, ".mbox", TRUE), DirEnt(2, ".txt", TRUE), DirEnt(3, ".patch", FALSE),
      DirEnt(4, ".diff", TRUE), DirEnt(5, ".patch", TRUE) }

\* the [options] keys of the build stage: a hook is declared or left empty
BuildHooks == [prebuild : BOOLEAN, prepare : BOOLEAN, configure : BOOLEAN, build : BOOLEAN]
PlainBuild == [prebuild |-> FALSE, prepare |-> FALSE, configure |-> FALSE, build |-> TRUE]

PlainSource ==
    [url |-> <<UrlA>>, sha256 |-> <<UrlA.id>>, vcs |-> NoVcs, submodules |-> FALSE,
     patches |-> <<>>]
PlainHooks == [install |-> <<>>, postinstall |-> FALSE, postremove |-> FALSE, strip |-> TRUE]

Join(a, b) == [f \in DOMAIN a \cup DOMAIN b |-> IF f \in DOMAIN a THEN a[f] ELSE b[f]]

\* the recipes that differ in their hooks, and those that differ in their
\* sources and patches
\* a recipe that leaves strip unset
NoStrip == [install |-> HookScript, postinstall |-> TRUE, postremove |-> FALSE, strip |-> FALSE]
HookRecipes == {Join(Join(h, PlainSource), PlainBuild) : h \in Hooks \cup {NoStrip}}
SourceRecipes ==
    {Join(Join(Join(PlainHooks, x), [patches |-> <<>>]), PlainBuild) : x \in Sources}
        \cup {Join(Join(Join(PlainHooks, [patches |-> ps]), PlainSource), PlainBuild) :
                 ps \in PatchLists}
BuildRecipes == {Join(Join(b, PlainHooks), PlainSource) : b \in BuildHooks}
Recipes == HookRecipes \cup SourceRecipes \cup BuildRecipes

\* sources/<name>-git is keyed by the name alone: it can be there before the
\* first fetch of this name-version (gits), as the work tree can (mkpkg)
InitWith(rs, gits) ==
    /\ recipe \in rs
    /\ pdir = PlainDir
    /\ destExists = FALSE
    /\ dest = {}
    /\ manifestExists = FALSE
    /\ manifest = {}
    /\ snapZst = NoArchive
    /\ snapGz = NoArchive
    /\ workExists \in BOOLEAN
    /\ work = EmptyTree
    /\ srcFiles = [f \in FileNames |-> Absent]
    /\ gitDir \in gits
    /\ rejected = {}
    /\ log = <<>>
    /\ result = EndRec("none", "exit", 0, "unused", FALSE)
    /\ runs = 0
    /\ exits = {}
    /\ procs = [p \in Procs |-> Idle]
    /\ ldd = [f \in Paths |-> NotElf]
    /\ report = <<>>
    /\ stage = NoStage
    /\ exec = NoExec

Store(o) ==
    /\ destExists' = o.destExists
    /\ dest' = o.dest
    /\ manifestExists' = o.manifestExists
    /\ manifest' = o.manifest
    /\ snapZst' = o.zst
    /\ snapGz' = o.gz
    /\ log' = o.log
    /\ result' = o.result
    /\ runs' = runs + 1

\* An input the handler does not read in the run at hand is held fixed.
Install ==
    /\ runs < MaxRuns
    /\ \E fr \in BOOLEAN, ambient \in {Unset, DestPath} :
          LET sh == ShellRun(InstallCommand(recipe.install, fr), ambient)
              started == workExists /\ sh.found
              inRoot == started /\ sh.target = DestPath
              archived == snapZst.present \/ snapGz.present
          IN  \E hookRc \in (IF started THEN {0, 1} ELSE {1}),
                 hookW \in (IF inRoot THEN HookTrees ELSE {{}}) :
                 \E hasZstd \in (IF hookRc # 0 /\ archived THEN BOOLEAN ELSE {TRUE}),
                    restoreOk \in (IF hookRc # 0 /\ archived THEN BOOLEAN ELSE {TRUE}),
                    postRc \in (IF hookRc = 0 /\ recipe.postinstall THEN {0, 1} ELSE {0}) :
                    Store(cmd_install(hasZstd, fr, ambient, hookRc, hookW, restoreOk, postRc))
    /\ UNCHANGED <<recipe, pdir, workExists, work, srcFiles, gitDir, rejected>>
    /\ UNCHANGED aux

Remove ==
    /\ runs < MaxRuns
    /\ LET attempted == destExists /\ dest # {}
       IN  \E hasZstd \in (IF attempted THEN BOOLEAN ELSE {TRUE}),
              snapOk \in (IF attempted THEN BOOLEAN ELSE {TRUE}) :
              \E postRc \in (IF snapOk /\ recipe.postremove THEN {0, 1} ELSE {0}) :
                 Store(cmd_remove(hasZstd, snapOk, postRc))
    /\ UNCHANGED <<recipe, pdir, workExists, work, srcFiles, gitDir, rejected>>
    /\ UNCHANGED aux

DlOutcomes == {"ok", "corrupt", "fail", "partial"}

Fetch ==
    /\ runs < MaxRuns
    /\ \E toolsOk \in BOOLEAN, dl \in [1..Len(split_list(recipe.url, NoUrl)) -> DlOutcomes],
          vcsRc \in {0, 1},
          subRc \in (IF recipe.vcs = VcsGit /\ gitDir /\ recipe.submodules THEN {0, 1} ELSE {0}) :
          LET o == cmd_fetch(toolsOk, dl, vcsRc, subRc)
          IN  /\ srcFiles' = o.files
              /\ gitDir' = o.gitDir
              /\ rejected' = rejected \cup o.bad
              /\ log' = o.log
              /\ result' = o.result
    /\ runs' = runs + 1
    /\ UNCHANGED <<recipe, pdir, destExists, dest, manifestExists, manifest, snapZst, snapGz,
                   workExists, work>>
    /\ UNCHANGED aux

Extract ==
    /\ runs < MaxRuns
    /\ \E ux \in [1..Len(source_paths(recipe)) -> {0, 1}], cpRc \in {0, 1} :
          LET o == cmd_extract(ux, cpRc)
          IN  /\ work' = o.work
              /\ log' = o.log
              /\ result' = o.result
    /\ workExists' = TRUE
    /\ runs' = runs + 1
    /\ UNCHANGED <<recipe, pdir, destExists, dest, manifestExists, manifest, snapZst, snapGz,
                   srcFiles, gitDir, rejected>>
    /\ UNCHANGED aux

Patch ==
    /\ runs < MaxRuns
    /\ \E initOk \in BOOLEAN, oc \in OutcomeSeqs(recipe.patches) :
          LET set(o) == /\ work' = o.work
                        /\ log' = o.log
                        /\ result' = o.result
          IN  set(cmd_patch(initOk, oc))
    /\ runs' = runs + 1
    /\ UNCHANGED <<recipe, pdir, destExists, dest, manifestExists, manifest, snapZst, snapGz,
                   workExists, srcFiles, gitDir, rejected>>
    /\ UNCHANGED aux

\* the exit statuses a hook's command ends with
HookRcs == {0, 1, 2}

\* An input the handler does not read in the run at hand is held fixed.
Build ==
    /\ runs < MaxRuns
    /\ \E rcs \in [1..Len(BuildSteps) ->  HookRcs] :
          /\ \A k \in 1..Len(BuildSteps) : (~workExists \/ ~recipe[BuildSteps[k]]) => rcs[k] = 0
          /\ LET set(o) == /\ log' = o.log
                           /\ result' = o.result
             IN  set(cmd_build_all(rcs))
    /\ runs' = runs + 1
    /\ UNCHANGED <<recipe, pdir, destExists, dest, manifestExists, manifest, snapZst, snapGz,
                   workExists, work, srcFiles, gitDir, rejected>>
    /\ UNCHANGED aux

\* ------------------------------------------------------- install || remove
\* cmd_install and cmd_remove statement by statement, for processes that run
\* at the same time.  The handlers open no lock file and take no flock: no
\* statement waits for another process.
may_proceed_Exclusive(p) == \A q \in Procs \ {p} : procs[q].pc \in {"idle", "done"}

may_proceed(p) == TRUE

Running(p) == procs[p].pc \notin {"idle", "done"}

RaceFrame ==
    UNCHANGED <<recipe, pdir, snapZst, snapGz, workExists, work, srcFiles, gitDir, rejected,
                log, result, exits, ldd, report, stage, exec>>

\* a process is started with install or remove
Start(p) ==
    /\ ~Running(p) /\ may_proceed(p)
    /\ runs < MaxRuns
    /\ \E cmd \in {"install", "remove"} :
          procs' = [procs EXCEPT ![p] = [cmd |-> cmd, recorded |-> {}, code |-> NoCode,
                                         pc |-> IF cmd = "install" THEN "wipe" ELSE "delete"]]
    /\ runs' = runs + 1
    /\ UNCHANGED <<destExists, dest, manifestExists, manifest>>
    /\ RaceFrame

\* fs::remove_all(dest); fs::create_directories(dest); make_snapshot finds
\* the root empty unless another process has written to it, and its archive
\* is read only after a failed install command
InstallWipe(p) ==
    /\ procs[p].pc = "wipe" /\ may_proceed(p)
    /\ destExists' = TRUE
    /\ dest' = {}
    /\ procs' = [procs EXCEPT ![p].pc = "hook"]
    /\ UNCHANGED <<manifestExists, manifest, runs>>
    /\ RaceFrame

\* the install command: "cd wd" fails without a work tree (the status is
\* returned, no archive to restore); else the command exits 0 having
\* written the files w, creating the root if it is gone
InstallHook(p) ==
    /\ procs[p].pc = "hook" /\ may_proceed(p)
    /\ IF workExists
       THEN \E w \in SUBSET Paths :
               /\ w # {}
               /\ destExists' = TRUE
               /\ dest' = dest \cup w
               /\ procs' = [procs EXCEPT ![p].pc = "manifest"]
       ELSE /\ procs' = [procs EXCEPT ![p].pc = "done", ![p].code = 1]
            /\ UNCHANGED <<destExists, dest>>
    /\ UNCHANGED <<manifestExists, manifest, runs>>
    /\ RaceFrame

\* strip_binaries and collect_manifest: the ofstream truncates the manifest,
\* then recursive_directory_iterator throws if the root is gone
InstallManifest(p) ==
    /\ procs[p].pc = "manifest" /\ may_proceed(p)
    /\ manifestExists' = TRUE
    /\ IF destExists
       THEN /\ manifest' = {f \in dest : is_regular_file(f)}
            /\ procs' = [procs EXCEPT ![p].pc = "return",
                                       ![p].recorded = {f \in dest : is_regular_file(f)}]
       ELSE /\ manifest' = {}
            /\ procs' = [procs EXCEPT ![p].pc = "done", ![p].code = RcFault]
    /\ UNCHANGED <<destExists, dest, runs>>
    /\ RaceFrame

\* run_step("postinstall", ...) of an empty hook; log.ok; return 0
InstallReturn(p) ==
    /\ procs[p].pc = "return" /\ may_proceed(p)
    /\ procs' = [procs EXCEPT ![p].pc = "done", ![p].code = 0]
    /\ UNCHANGED <<destExists, dest, manifestExists, manifest, runs>>
    /\ RaceFrame

\* cmd_remove after its snapshot: the listed files are removed, then
\* fs::remove_all(dest); return 0
RemoveDelete(p) ==
    /\ procs[p].pc = "delete" /\ may_proceed(p)
    /\ destExists' = FALSE
    /\ dest' = {}
    /\ procs' = [procs EXCEPT ![p].pc = "done", ![p].code = 0]
    /\ UNCHANGED <<manifestExists, manifest, runs>>
    /\ RaceFrame

RaceStep(p) ==
    \/ InstallWipe(p) \/ InstallHook(p) \/ InstallManifest(p) \/ InstallReturn(p)
    \/ RemoveDelete(p)

\* ----------------------------------------------------------------- revdep
\* std::set<std::string>::insert on the set kept as its sorted sequence
set_insert_PushBack(bins, x) == Append(bins, x)

set_insert(bins, x) ==
    SelectSeq(bins, LAMBDA y : y < x) \o <<x>> \o SelectSeq(bins, LAMBDA y : y > x)

\* the while loop over the lines of one binary: dep2bins[lib].insert(path)
RECURSIVE add_lines(_, _, _)
add_lines(dep2bins, lines, f) ==
    IF lines = <<>> THEN dep2bins
    ELSE add_lines([dep2bins EXCEPT ![lines[1]] = set_insert(@, f)], Tail(lines), f)

\* the for loop over recursive_directory_iterator(dest), which yields the
\* entries in the order es
RECURSIVE walk(_, _)
walk(dep2bins, es) ==
    IF es = <<>> THEN dep2bins
    ELSE IF is_regular_file(es[1]) /\ ldd[es[1]].elf
    THEN walk(add_lines(dep2bins, ldd[es[1]].libs, es[1]), Tail(es))
    ELSE walk(dep2bins, Tail(es))

\* the second loop: one line per key of the map, in key order
print_report(dep2bins) ==
    LET n == Cardinality(Libs)
        all == [l \in 1..n |-> [lib |-> l, bins |-> dep2bins[l]]]
    IN  SelectSeq(all, LAMBDA r : r.bins # <<>>)

\* every order in which the entries of a directory tree can be enumerated
Orders(S) ==
    {es \in [1..Cardinality(S) -> S] : \A i, j \in 1..Cardinality(S) : i # j => es[i] # es[j]}

\* cmd_revdep
cmd_revdep(es) ==
    IF ~destExists
    THEN [report |-> <<>>, log |-> <<Ev("no_destdir")>>, result |-> Finish("revdep", 1, "unused")]
    ELSE [report |-> print_report(walk([l \in Libs |-> <<>>], es)), log |-> <<>>,
          result |-> Finish("revdep", 0, "unused")]

Revdep ==
    /\ runs < MaxRuns
    /\ \E es \in Orders(dest) :
          LET set(o) == /\ report' = o.report
                        /\ log' = o.log
                        /\ result' = o.result
          IN  set(cmd_revdep(es))
    /\ runs' = runs + 1
    /\ UNCHANGED <<recipe, pdir, destExists, dest, manifestExists, manifest, snapZst, snapGz,
                   workExists, work, srcFiles, gitDir, rejected, exits, procs, ldd, stage, exec>>

\* ------------------------------------------------------ a stage in time
Stages == {"fetch", "extract", "patch", "build", "install", "remove", "revdep"}

\* the handlers that start a Spinner
Spins(cmd) == cmd \in {"fetch", "extract", "patch"}

StageFrame ==
    UNCHANGED <<recipe, pdir, destExists, dest, manifestExists, manifest, snapZst, snapGz,
                workExists, work, srcFiles, gitDir, rejected, log, result, runs,
                exits, procs, ldd, report, exec>>

\* the handler is entered; its loops run over finite lists (urls, patches,
\* directory entries), so it starts a bounded number n of commands
StageBegin ==
    /\ stage.pc = "idle"
    /\ \E cmd \in Stages, n \in 0..MaxCmds :
          stage' = [NoStage EXCEPT !.cmd = cmd, !.pc = "handler", !.left = n,
                                   !.spin = IF Spins(cmd) THEN "spinning" ELSE "none"]
    /\ StageFrame

\* popen: the command is started; whether it will ever exit is its own affair
ExecStart ==
    /\ stage.pc = "handler" /\ stage.left > 0
    /\ \E h \in BOOLEAN : stage' = [stage EXCEPT !.pc = "waiting", !.hung = h]
    /\ StageFrame

\* "while (fgets(...))" and pclose return only when the command has closed
\* its output and exited: exec_cmd sets no alarm, polls nothing, kills nothing
exec_returns_AfterTimeout(hung) == TRUE

exec_returns(hung) == ~hung

\* the command exits and exec_cmd returns; on a status the handler returns
\* at (stop) the process ends, by std::terminate if the Spinner thread is
\* still joinable
CommandExits ==
    /\ stage.pc = "waiting" /\ exec_returns(stage.hung)
    /\ \E stop \in BOOLEAN :
          stage' = [stage EXCEPT !.pc = IF stop THEN "done" ELSE "handler",
                                 !.left = @ - 1, !.ran = @ + 1, !.hung = FALSE]
    /\ StageFrame

\* the end of the handler: sp.stop() sets running to false and joins
StageEnd ==
    /\ stage.pc = "handler" /\ stage.left = 0
    /\ stage' = IF stage.spin = "spinning"
                THEN [stage EXCEPT !.pc = "joining", !.spin = "stopping"]
                ELSE [stage EXCEPT !.pc = "done"]
    /\ StageFrame

\* the Spinner thread: one turn of "while (running)" prints a frame
SpinnerFrame ==
    /\ stage.spin = "spinning" /\ stage.pc # "done"
    /\ stage' = [stage EXCEPT !.frame = (@ + 1) % 4]
    /\ StageFrame

\* the thread reads running = false and leaves its loop
SpinnerExit ==
    /\ stage.spin = "stopping"
    /\ stage' = [stage EXCEPT !.spin = "exited"]
    /\ StageFrame

\* th.join() returns, and the handler after it
JoinReturns ==
    /\ stage.pc = "joining" /\ stage.spin = "exited"
    /\ stage' = [stage EXCEPT !.pc = "done"]
    /\ StageFrame

\* --------------------------------------------------------------- exec_cmd
\* the wait status pclose returns, as wait(2) encodes it in 16 bits
wait_status(e) ==
    IF e.how = "exit" THEN (e.n % 256) * 256
    ELSE (e.n % 128) + (IF e.core THEN 128 ELSE 0)

\* the macro: bits 8..15 of the status
WEXITSTATUS(st) == (st \div 256) % 256

\* exec_cmd
exec_cmd(e) ==
    IF e.how = "popen_fails" THEN 127
    ELSE IF e.how = "pclose_fails" THEN 127
    ELSE WEXITSTATUS(wait_status(e))

ExecCmd ==
    /\ runs < MaxRuns
    /\ \E e \in Endings : exec' = [ending |-> e, rc |-> exec_cmd(e)]
    /\ runs' = runs + 1
    /\ UNCHANGED <<recipe, pdir, destExists, dest, manifestExists, manifest, snapZst, snapGz,
                   workExists, work, srcFiles, gitDir, rejected, log, result,
                   exits, procs, ldd, report, stage>>

\* ------------------------------------------------------------------ main
\* resolve_cmd's command names; any other first argument is unknown
AllCmds == {"help", "init", "fetch", "extract", "patch", "build", "install", "remove",
            "info", "search", "sync", "revdep", "mkpkg"}
Unknown == "frobnicate"

\* the branches of main that call need_name(3), resp. ensure_recipe
needs_name(cmd) == cmd \in AllCmds \ {"help", "sync"}
needs_recipe(cmd) ==
    cmd \in {"fetch", "extract", "patch", "build", "install", "remove", "info", "revdep"}

\* The class of an end: "usage" (too few arguments, unknown command),
\* "config" (recipe not found, recipe without a name, missing tool), "fault"
\* (any other exception that reaches main's catch) or "stage" (the handler
\* returned).
\* main with the handler's end h as an input: Throws or the status it returns
Throws == -1
main_exit(cmd, argcOk, found, loads, toolsOk, h) ==
    IF cmd = "help" THEN [class |-> "stage", code |-> 0]
    ELSE IF cmd \notin AllCmds THEN [class |-> "usage", code |-> 2]
    ELSE IF needs_name(cmd) /\ ~argcOk THEN [class |-> "usage", code |-> 1]
    ELSE IF needs_recipe(cmd) /\ ~found THEN [class |-> "config", code |-> RcNoRecipe]
    ELSE IF needs_recipe(cmd) /\ ~loads THEN [class |-> "config", code |-> RcFault]
    ELSE IF cmd = "fetch" /\ ~toolsOk THEN [class |-> "config", code |-> RcFault]
    ELSE IF h = Throws THEN [class |-> "fault", code |-> RcFault]
    ELSE [class |-> "stage", code |-> h]

\* what a handler can end with, as main sees it
HandlerEnds == {Throws, 0, 1, RcIntegrity}

\* An input main does not read in the run at hand is held fixed.
Main ==
    /\ runs < MaxRuns
    /\ \E cmd \in AllCmds \cup {Unknown}, argcOk, found, loads, toolsOk \in BOOLEAN,
          h \in HandlerEnds :
          /\ (cmd \notin AllCmds \/ ~needs_name(cmd)) => argcOk
          /\ (~argcOk \/ cmd \notin AllCmds \/ ~needs_recipe(cmd)) => found
          /\ ~found => loads
          /\ (~loads \/ cmd # "fetch") => toolsOk
          /\ (~argcOk \/ ~found \/ ~loads \/ ~toolsOk \/ cmd \in {"help", Unknown}) => h = 0
          /\ LET set(e) ==
                     /\ exits' = (IF e.class = "stage" THEN exits ELSE exits \cup {e})
                     /\ result' = [EndRec(cmd, "exit", e.code, "unused", e.code = RcFault)
                                       EXCEPT !.handler = (e.class \in {"stage", "fault"})]
             IN  set(main_exit(cmd, argcOk, found, loads, toolsOk, h))
    /\ log' = <<>>
    /\ runs' = runs + 1
    /\ UNCHANGED <<recipe, pdir, destExists, dest, manifestExists, manifest, snapZst, snapGz,
                   workExists, work, srcFiles, gitDir, rejected, procs, ldd, report, stage, exec>>

\* main before the handler: ensure_recipe returns non-zero when recipe.ini is
\* missing, and Recipe::load throws when it cannot be read or has no name.
Cmds == {"fetch", "extract", "patch", "build", "install", "remove"}

NoRecipe ==
    /\ runs < MaxRuns
    /\ \E cmd \in Cmds, loads \in BOOLEAN :
          result' = [(IF loads THEN Finish(cmd, RcNoRecipe, "unused")
                      ELSE Fault(cmd, "unused")) EXCEPT !.handler = FALSE]
    /\ log' = <<>>
    /\ runs' = runs + 1
    /\ UNCHANGED <<recipe, pdir, destExists, dest, manifestExists, manifest, snapZst, snapGz,
                   workExists, work, srcFiles, gitDir, rejected>>
    /\ UNCHANGED aux

Init == InitWith(Recipes, BOOLEAN)

Next == Install \/ Remove \/ Fetch \/ Extract \/ Patch \/ Build \/ NoRecipe

Spec == Init /\ [][Next]_vars

\* install and remove read nothing of the source pipeline but whether the
\* work tree exists, and the pipeline reads nothing of the installation
\* root: each half is checked on its own, over the recipes that matter to it.
InitStore == InitWith(HookRecipes, {FALSE})

NextStore == Install \/ Remove

SpecStore == InitStore /\ [][NextStore]_vars

InitSource == InitWith(SourceRecipes, BOOLEAN)

NextSource == Fetch \/ Extract \/ Patch \/ NoRecipe

SpecSource == InitSource /\ [][NextSource]_vars

\* the build stage reads only whether the work tree exists, which extract
\* (or mkpkg) decides
InitBuild == InitWith(BuildRecipes, {FALSE})

NextBuild == Build \/ Extract

SpecBuild == InitBuild /\ [][NextBuild]_vars

\* one plain recipe, for what does not depend on the recipe
InitPlain == InitWith({Join(Join(PlainHooks, PlainSource), PlainBuild)}, {FALSE})

\* main's own ends, whatever the stage does
SpecMain == InitPlain /\ [][Main]_vars

\* two invocations of install / remove at the same time
NextRace == \E p \in Procs : Start(p) \/ RaceStep(p)

SpecRace == InitPlain /\ [][NextRace]_vars

\* revdep over a root as an install left it, with the files' kinds fixed
InitRevdep ==
    /\ recipe \in {Join(Join(PlainHooks, PlainSource), PlainBuild)}
    /\ pdir = PlainDir
    /\ destExists \in BOOLEAN
    /\ dest \in (IF destExists THEN HookTrees ELSE {{}})
    /\ manifestExists = destExists
    /\ manifest = dest \cap Paths
    /\ snapZst = NoArchive
    /\ snapGz = NoArchive
    /\ workExists = TRUE
    /\ work = EmptyTree
    /\ srcFiles = [f \in FileNames |-> Absent]
    /\ gitDir = FALSE
    /\ rejected = {}
    /\ log = <<>>
    /\ result = EndRec("none", "exit", 0, "unused", FALSE)
    /\ runs = 0
    /\ exits = {}
    /\ procs = [p \in Procs |-> Idle]
    /\ ldd \in [Paths -> FileKinds]
    /\ report = <<>>
    /\ stage = NoStage
    /\ exec = NoExec

SpecRevdep == InitRevdep /\ [][Revdep]_vars

\* one stage invocation in time.  The process's threads are scheduled, and a
\* command that is going to exit does: each step is weakly fair.
NextLive ==
    \/ StageBegin \/ ExecStart \/ CommandExits \/ StageEnd
    \/ SpinnerFrame \/ SpinnerExit \/ JoinReturns

FairLive ==
    /\ WF_vars(ExecStart) /\ WF_vars(CommandExits) /\ WF_vars(StageEnd)
    /\ WF_vars(SpinnerExit) /\ WF_vars(JoinReturns)

SpecLive == InitPlain /\ [][NextLive]_vars /\ FairLive

\* exec_cmd alone, over the ways a command can end
SpecExec == InitPlain /\ [][ExecCmd]_vars

\* one patch invocation for a recipe that lists a directory and then a file,
\* over every directory of up to three entries in every enumeration order,
\* with at most one file that does not apply
InitPatchDir ==
    /\ recipe = Join(Join(Join(PlainHooks, [patches |-> <<PDir, PFile(TRUE)>>]), PlainSource),
                     PlainBuild)
    /\ \E S \in SUBSET DirEntries, b \in SUBSET {e.name : e \in DirEntries} :
          /\ Cardinality(S) <= 3 /\ Cardinality(b) <= 1
          /\ \E l \in Orders(S) : pdir = [listing |-> l, bad |-> b]
    /\ destExists = FALSE
    /\ dest = {}
    /\ manifestExists = FALSE
    /\ manifest = {}
    /\ snapZst = NoArchive
    /\ snapGz = NoArchive
    /\ workExists = TRUE
    /\ work \in {EmptyTree, [EmptyTree EXCEPT !.git = TRUE]}
    /\ srcFiles = [f \in FileNames |-> Absent]
    /\ gitDir = FALSE
    /\ rejected = {}
    /\ log = <<>>
    /\ result = EndRec("none", "exit", 0, "unused", FALSE)
    /\ runs = MaxRuns - 1
    /\ exits = {}
    /\ procs = [p \in Procs |-> Idle]
    /\ ldd = [f \in Paths |-> NotElf]
    /\ report = <<>>
    /\ stage = NoStage
    /\ exec = NoExec

SpecPatchDir == InitPatchDir /\ [][Patch]_vars

\* ================================================================= claims
IsInstall == result.cmd = "install" /\ result.handler
IsRemove == result.cmd = "remove" /\ result.handler
Succeeded == result.kind = "exit" /\ result.code = 0
Before(l, a, b) == \E i, j \in 1..Len(l) : i < j /\ l[i].op = a /\ l[j].op = b

\* C1: an install whose hook exits non-zero returns with the installation
\* root holding exactly what it held when the invocation began, and reports
\* failure.
C1_RollbackKeepsPreInstallContent ==
    (IsInstall /\ result.hook = "failed")
        => (dest = result.pre /\ ~Succeeded)

\* C2: when the install hook fails and no snapshot archive exists, the root
\* is an existing empty directory when install returns.
C2_NoSnapshotEmptyRoot ==
    (IsInstall /\ result.hook = "failed" /\ ~snapZst.present /\ ~snapGz.present)
        => (destExists /\ dest = {})

\* C3: a failed install restores the root only from an archive written by
\* that install's own snapshot, never from one written by remove.
C3_RestoreOnlyOwnSnapshot ==
    IsInstall => /\ (result.restored = "zst" => snapZst.by = "install")
                 /\ (result.restored = "gz" => snapGz.by = "install")

\* C4: every install writes a snapshot archive before it runs the install
\* hook, also when the root is empty at that moment.
C4_SnapshotBeforeHook ==
    (IsInstall /\ Has(log, "hook")) => Before(log, "snapshot", "hook")

\* C5: when fetch finds an artifact's digest different from the declared
\* checksum it does not succeed, and no later extract unpacks that file.
C5_MismatchNeverExtracted ==
    /\ (result.cmd = "fetch" /\ result.handler /\ Has(log, "sha256_differs")) => ~Succeeded
    /\ (result.cmd = "extract" /\ result.handler)
          => \A i \in 1..Len(log) : log[i].op = "unpack" => log[i].arg \notin rejected

\* C6: whenever the install command ran, the DESTDIR its program acted on is
\* the installation root of this name-version.
C6_InstallTargetsRoot ==
    (IsInstall /\ result.target # "none") => result.target = DestPath

\* C7: patch entries are attempted in listed order; the first entry that
\* fails ends the step without success, the entries before it stay applied to
\* the work tree and no later entry is attempted; if none fails all are
\* applied and the step succeeds.
C7_PatchOrderFirstFailureAborts ==
    (result.cmd = "patch" /\ result.handler /\ Has(log, "entry")) =>
        LET tried == SelectSeq(log, LAMBDA e : e.op = "entry")
            k == Len(tried)
            failed == {log[i].arg : i \in {j \in 1..Len(log) : log[j].op = "entry_failed"}}
            now == SubSeq(work.applied, result.preApplied + 1, Len(work.applied))
        IN  /\ \A j \in 1..k : tried[j].arg = j
            /\ \A i \in 1..Len(log) : log[i].arg <= k
            /\ failed \subseteq {k}
            /\ failed # {} => (~Succeeded /\ now = [j \in 1..(k - 1) |-> j])
            /\ failed = {} => (Succeeded /\ k = Len(recipe.patches) /\ now = [j \in 1..k |-> j])

C7_Witness ==
    /\ result.cmd = "patch" /\ result.handler
    /\ Len(recipe.patches) = 3
    /\ \E i \in 1..Len(log) : log[i] = EvAt("entry_failed", 2)
    /\ work.applied = <<1>>

\* C8: fetch, extract and patch never end with the progress thread still
\* running: it has been stopped and joined on every path out of the handler.
C8_SpinnerJoinedOnEveryPath ==
    (result.handler /\ result.cmd \in {"fetch", "extract", "patch"})
        => result.spinner # "running"

\* C9: every exception raised inside a stage ends the process with exit
\* status 100, through main's catch block.
C9_FaultsExitWith100 ==
    result.threw => (result.kind = "exit" /\ result.code = RcFault)

C11_PostremoveFailureReported ==
    (IsRemove /\ result.post = "failed") => (~Succeeded /\ ~destExists /\ dest = {})

C13_RemoveDeletesManifest ==
    (IsRemove /\ result.hadManifest /\ ~result.threw) => ~manifestExists

\* C14: when the install hook succeeds and postinstall then fails, install
\* reports failure and rolls nothing back: the root and the recorded
\* manifest stay as they were once the hook had succeeded.
C14_PostinstallFailureNoRollback ==
    (IsInstall /\ result.hook = "ok" /\ result.post = "failed") =>
        /\ ~Succeeded /\ result.kind = "exit"
        /\ ~Has(log, "restore") /\ result.restored = "none"
        /\ destExists /\ dest = result.installed
        /\ manifestExists /\ manifest = result.installed \cap Paths
        /\ Before(log, "manifest", "postinstall")

C14_Witness ==
    /\ IsInstall /\ result.hook = "ok" /\ result.post = "failed"
    /\ dest # {} /\ dest = result.installed /\ manifest # {}

\* C15: after an install whose hook succeeds, the manifest lists exactly
\* the relative paths of the regular files under the root: each of them on
\* one line, and no other path.
C15_ManifestListsRegularFiles ==
    (IsInstall /\ result.hook = "ok") =>
        LET regular == dest \cap Paths
        IN  /\ dest = result.installed
            /\ manifestExists /\ manifest = regular
            /\ \A p \in regular :
                  Cardinality({i \in 1..Len(log) : log[i] = EvAt("line", p)}) = 1
            /\ \A i \in 1..Len(log) : log[i].op = "line" => log[i].arg \in regular

C15_Witness ==
    /\ IsInstall /\ result.hook = "ok"
    /\ SubDir \in dest /\ dest \cap Paths # {}
    /\ manifest = dest \ {SubDir}

\* C16: a fetch that finds every derived source destination already on
\* disk issues no download command for any source url and leaves the source
\* files as they were.
C16_FetchSkipsPresentSources ==
    LET n == Len(split_list(recipe.url, NoUrl))
        dsts == {source_paths(recipe)[i] : i \in 1..n}
    IN  (result.cmd = "fetch" /\ result.handler
            /\ \A f \in dsts : result.preSrc[f] # Absent)
            => (~Has(log, "curl") /\ srcFiles = result.preSrc)

C16_Witness ==
    /\ result.cmd = "fetch" /\ result.handler /\ Succeeded
    /\ Len(split_list(recipe.url, NoUrl)) = 2
    /\ result.preSrc[UrlA.file] = UrlA.id /\ result.preSrc[UrlB.file] = UrlB.id
    /\ Has(log, "sha256_ok") /\ srcFiles = result.preSrc

\* C17: the work tree a successful extract leaves is determined by the
\* sources alone, so extracting twice with unchanged sources gives the tree
\* of extracting once: whatever the prior tree held beyond what the sources
\* produce (applied patches, a repository made by the patch step) is gone.
C17_ExtractIdempotent ==
    (result.cmd = "extract" /\ result.handler /\ Succeeded) =>
        LET srcs == source_paths(recipe)
        IN  /\ workExists
            /\ work = [unpacked |-> [i \in 1..Len(srcs) |-> srcFiles[srcs[i]]],
                       git |-> srcs = <<>>, fromVcs |-> srcs = <<>>, applied |-> <<>>,
                       tmpref |-> FALSE]

C17_Witness ==
    /\ result.cmd = "extract" /\ result.handler /\ Succeeded
    /\ result.preApplied > 0 /\ work.applied = <<>> /\ ~work.git
    /\ work.unpacked # <<>>

\* C18: when none of the recipe's source artifacts is on disk and a VCS
\* source is declared, extract copies the VCS working copy; extract fails
\* only when an artifact is missing and there is no VCS working copy to use
\* instead, or when an unpack command (the copy included) fails.
C18_FallbackWhenNoArtifact ==
    LET srcs == source_paths(recipe)
        noArtifact == \A i \in 1..Len(srcs) : srcFiles[srcs[i]] = Absent
        missing == srcs = <<>> \/ \E i \in 1..Len(srcs) : srcFiles[srcs[i]] = Absent
        unpackFailed == Len(SelectSeq(log, LAMBDA e : e.op = "unpack")) > Len(work.unpacked)
        copyFailed == Has(log, "cp_vcs") /\ ~work.fromVcs
    IN  (result.cmd = "extract" /\ result.handler) =>
            /\ (noArtifact /\ recipe.vcs = VcsGit /\ gitDir) => Has(log, "cp_vcs")
            /\ ~Succeeded =>
                  \/ missing /\ ~(recipe.vcs = VcsGit /\ gitDir)
                  \/ unpackFailed \/ copyFailed

\* C19: the single-file apply procedure tries git am --3way, then patch
\* -p1, then patch -p0, in that order; it stops at the first that succeeds
\* and fails exactly when all three have failed.
C19_ApplyStrategiesInOrder ==
    (result.cmd = "patch" /\ result.handler) =>
        \A i \in 1..Len(recipe.patches) :
            LET e == recipe.patches[i]
                mine == SelectSeq(log, LAMBDA x : x.arg = i
                                          /\ x.op \in {"am", "p1", "p0", "nonzero"})
                ops == [j \in 1..Len(mine) |-> mine[j].op]
                all3 == <<"am", "nonzero", "p1", "nonzero", "p0", "nonzero">>
                failed == \E j \in 1..Len(log) : log[j] = EvAt("entry_failed", i)
                done == \E j \in (result.preApplied + 1)..Len(work.applied) : work.applied[j] = i
            IN  (e.kind # "git" /\ ~e.dir /\ ops # <<>>) =>
                    /\ \E n \in {1, 3, 5, 6} : ops = SubSeq(all3, 1, n)
                    /\ failed <=> ops = all3
                    /\ done <=> ops # all3

C19_Witness ==
    /\ result.cmd = "patch" /\ result.handler
    /\ recipe.patches = <<PFile(TRUE), PUrl, PFile(TRUE)>>
    /\ SelectSeq(log, LAMBDA x : x.arg = 1) = <<EvAt("entry", 1), EvAt("am", 1)>>
    /\ SelectSeq(log, LAMBDA x : x.arg = 2 /\ x.op \in {"am", "p1", "p0"})
          = <<EvAt("am", 2), EvAt("p1", 2)>>
    /\ \E j \in 1..Len(log) : log[j] = EvAt("p0", 3)
    /\ \E j \in 1..Len(log) : log[j] = EvAt("entry_failed", 3)
    /\ work.applied = <<1, 2>>

\* the commands of the git entry at position i, with a "nonzero" after each
\* that failed
GitOps(i) ==
    LET mine == SelectSeq(log, LAMBDA x : x.arg = i
                              /\ x.op \in {"fetch_ref", "cherry_pick", "delete_ref", "nonzero"})
    IN  [j \in 1..Len(mine) |-> mine[j].op]

DeleteFailed(ops) ==
    Len(ops) >= 2 /\ ops[Len(ops) - 1] = "delete_ref" /\ ops[Len(ops)] = "nonzero"

\* C20 (as stated): whenever a cherry-pick entry finishes, whether its
\* fetch failed, its cherry-pick failed or both succeeded, the deletion of
\* the disposable reference has been issued and (unless that command itself
\* failed) the reference does not exist.
C20_RefDeletedOnEveryOutcome ==
    (result.cmd = "patch" /\ result.handler) =>
        \A i \in 1..Len(recipe.patches) :
            LET ops == GitOps(i)
            IN  (recipe.patches[i].kind = "git" /\ ops # <<>> /\ ~DeleteFailed(ops)) =>
                    /\ \E j \in 1..Len(ops) : ops[j] = "delete_ref"
                    /\ ~work.tmpref

\* C20 (amended): when the fetch of the refspec succeeded, the cherry-pick
\* is attempted and the deletion of the reference is issued after it whether
\* it succeeded or failed, and the reference is gone unless the deletion
\* itself failed; when the fetch fails the entry ends with an exception, no
\* cherry-pick and no deletion is issued and the reference is as it was.
C20_RefDeletedAfterFetch ==
    (result.cmd = "patch" /\ result.handler) =>
        \A i \in 1..Len(recipe.patches) :
            LET ops == GitOps(i)
                fetchFailed == Len(ops) >= 2 /\ ops[2] = "nonzero"
            IN  (recipe.patches[i].kind = "git" /\ ops # <<>>) =>
                    /\ ops[1] = "fetch_ref"
                    /\ fetchFailed =>
                          /\ ops = <<"fetch_ref", "nonzero">>
                          /\ result.threw /\ ~Succeeded
                          /\ work.tmpref = result.preRef
                    /\ ~fetchFailed =>
                          /\ ops \in { <<"fetch_ref", "cherry_pick", "delete_ref">>,
                                       <<"fetch_ref", "cherry_pick", "nonzero", "delete_ref">>,
                                       <<"fetch_ref", "cherry_pick", "delete_ref", "nonzero">> }
                          /\ ~result.threw
                          /\ work.tmpref <=> DeleteFailed(ops)

C20_Witness ==
    /\ result.cmd = "patch" /\ result.handler
    /\ recipe.patches = <<PUrl, PGit(TRUE), PDir>>
    /\ GitOps(2) = <<"fetch_ref", "cherry_pick", "nonzero", "delete_ref">>
    /\ result.preRef /\ ~work.tmpref /\ ~Succeeded

\* the hook commands of the last invocation, in the order they were started
HooksRun ==
    LET mine == SelectSeq(log, LAMBDA x : x.op \in {"prebuild", "prepare", "configure", "build"})
    IN  [j \in 1..Len(mine) |-> mine[j].op]

\* C21: the build stage starts the declared hooks in the order prebuild,
\* prepare, configure, build and none twice; an empty hook is skipped and
\* does not fail the stage; the stage ends at the first hook that exits
\* non-zero, with that hook's exit status, and starts no hook after it; when
\* no hook fails every declared hook has run and the stage returns 0.
C21_BuildHooksInOrder ==
    LET declared == SelectSeq(<<"prebuild", "prepare", "configure", "build">>,
                              LAMBDA h : recipe[h])
        ran == HooksRun
        n == Len(log)
    IN  (result.cmd = "build" /\ result.handler /\ ~Has(log, "no_work")) =>
            /\ Len(ran) <= Len(declared) /\ ran = SubSeq(declared, 1, Len(ran))
            /\ result.kind = "exit"
            /\ Has(log, "nonzero") =>
                  /\ n >= 2 /\ log[n].op = "nonzero" /\ log[n - 1].op = ran[Len(ran)]
                  /\ Len(SelectSeq(log, LAMBDA x : x.op = "nonzero")) = 1
                  /\ result.code = log[n].arg /\ result.code # 0
            /\ ~Has(log, "nonzero") => (ran = declared /\ result.code = 0)

C21_Witness ==
    /\ result.cmd = "build" /\ result.handler
    /\ recipe.prebuild /\ ~recipe.prepare /\ recipe.configure /\ recipe.build
    /\ HooksRun = <<"prebuild", "configure">>
    /\ result.code = 2

\* C22: an exit status tells the class of the error: no status value is
\* produced by ends of two different classes among usage errors, tool/config
\* errors and unexpected internal faults.
C22_ExitStatusTellsClass ==
    \A a, b \in exits : a.code = b.code => a.class = b.class

\* C23: a fetch that fails leaves the source files exactly as it found
\* them, and an extract that fails leaves the work tree exactly as it found
\* it.
C23_FailedStageChangesNothing ==
    /\ (result.cmd = "fetch" /\ result.handler /\ ~Succeeded) => srcFiles = result.preSrc
    /\ (result.cmd = "extract" /\ result.handler /\ ~Succeeded) => work = result.preWork

\* the VCS command named op was started by the last invocation and exited
\* non-zero
VcsFailed(op) ==
    \E j \in 1..(Len(log) - 1) : log[j].op = op /\ log[j + 1].op = "nonzero"

\* C24: a fetch in which git clone, git fetch or the recursive submodule
\* update exits non-zero does not succeed.
C24_VcsFailureFailsFetch ==
    (result.cmd = "fetch" /\ result.handler) =>
        \A op \in {"git_clone", "git_fetch", "submodule_update"} : VcsFailed(op) => ~Succeeded

\* C25: the artifact of the source at position i is verified exactly when
\* the checksum list has a non-empty item at position i, and it is compared
\* against that item: the verification passes when the artifact's digest is
\* that item and fails when it is not, also when an earlier item is empty.
C25_ChecksumsMatchedByPosition ==
    LET urls == split_list(recipe.url, NoUrl)
        given(i) == i <= Len(recipe.sha256) /\ recipe.sha256[i] # NoSum
        at(op, i) == \E j \in 1..Len(log) : log[j] = EvAt(op, i)
    IN  (result.cmd = "fetch" /\ result.handler) =>
            \A i \in 1..Len(urls) :
                /\ at("sha256_ok", i) =>
                      (given(i) /\ srcFiles[urls[i].file] = recipe.sha256[i])
                /\ at("sha256_differs", i) =>
                      (given(i) /\ srcFiles[urls[i].file] # recipe.sha256[i])
                /\ (Succeeded /\ given(i)) => at("sha256_ok", i)

\* C26: nothing makes an invocation wait for another one: while a process
\* is inside install or remove, every other process can take its next step,
\* and a new invocation can be started.  (The witness is the harm: an
\* install has reported success and the root does not hold the files of the
\* manifest it recorded.)
C26_NoMutualExclusion ==
    \A p, q \in Procs :
        (p # q /\ Running(p)) =>
            /\ Running(q) => ENABLED RaceStep(q)
            /\ (~Running(q) /\ runs < MaxRuns) => ENABLED Start(q)

C26_Witness ==
    \E p \in Procs :
        /\ procs[p].cmd = "install" /\ procs[p].pc = "done" /\ procs[p].code = 0
        /\ procs[p].recorded # {}
        /\ ~(destExists /\ procs[p].recorded \subseteq dest)
        /\ \E q \in Procs \ {p} : Running(q)

\* C27: whatever the order in which the root's entries were enumerated,
\* revdep's report has one line per library that some ELF binary under the
\* root references, the lines in ascending library order, and each line
\* lists exactly the binaries that reference the library, ascending and
\* without duplicates: the report is a function of the root's content and
\* of the query results alone.
C27_RevdepOrderIndependent ==
    LET Refs(l) == {f \in dest \cap Paths :
                      ldd[f].elf /\ \E k \in 1..Len(ldd[f].libs) : ldd[f].libs[k] = l}
        Ascending(q) == \A i, j \in 1..Len(q) : i < j => q[i] < q[j]
    IN  (result.cmd = "revdep" /\ result.handler /\ Succeeded) =>
            /\ Ascending([i \in 1..Len(report) |-> report[i].lib])
            /\ \A l \in Libs :
                  LET lines == SelectSeq(report, LAMBDA r : r.lib = l)
                  IN  IF Refs(l) = {} THEN lines = <<>>
                      ELSE /\ Len(lines) = 1
                           /\ Ascending(lines[1].bins)
                           /\ {lines[1].bins[k] : k \in 1..Len(lines[1].bins)} = Refs(l)

C27_Witness ==
    /\ result.cmd = "revdep" /\ result.handler /\ Succeeded
    /\ dest = {1, 2}
    /\ ldd[1].libs = <<2, 1>> /\ ldd[2].libs = <<2, 2>>
    /\ report = <<[lib |-> 1, bins |-> <<1>>], [lib |-> 2, bins |-> <<1, 2>>]>>

Blocked == stage.pc = "waiting" /\ stage.hung

\* C28: a stage invocation that was entered ends, unless it is waiting for
\* a command that never exits; and once it waits for such a command it
\* waits forever: nothing times the command out or cancels it.
C28_TerminatesUnlessCommandHangs ==
    /\ (stage.pc # "idle") ~> (stage.pc = "done" \/ Blocked)
    /\ [][Blocked => Blocked']_vars

C28_Witness ==
    /\ Blocked /\ stage.cmd = "patch" /\ stage.ran = 2 /\ stage.frame = 3

\* C29: exec_cmd returns 0 exactly when the command exited normally with
\* status 0; a command that could not be started, exited non-zero or was
\* terminated by a signal gives a non-zero result.
C29_ZeroOnlyOnNormalExitZero ==
    (exec.ending.how # "none") =>
        (exec.rc = 0 <=> (exec.ending.how = "exit" /\ exec.ending.n = 0))

\* what install did after its install command, in order
AfterHook ==
    LET mine == SelectSeq(log, LAMBDA x : x.op \in {"strip", "manifest", "postinstall"})
    IN  [j \in 1..Len(mine) |-> mine[j].op]

\* C30: after an install command that exited 0, install strips exactly
\* when the strip flag is set, then records the manifest, then runs the
\* postinstall hook if one is declared, in that order and each once, all
\* after the install command; after an install command that failed none of
\* the three runs and the manifest is as the invocation found it.
C30_StripManifestPostinstall ==
    IsInstall =>
        /\ result.hook = "ok" =>
              /\ AfterHook = (IF recipe.strip THEN <<"strip">> ELSE <<>>) \o <<"manifest">>
                                 \o (IF recipe.postinstall THEN <<"postinstall">> ELSE <<>>)
              /\ \A op \in {"strip", "manifest", "postinstall"} :
                    Has(log, op) => Before(log, "hook", op)
        /\ result.hook = "failed" =>
              /\ AfterHook = <<>>
              /\ manifestExists = result.hadManifest
              /\ manifest = result.preManifest

C30_Witness ==
    /\ IsInstall /\ result.hook = "failed"
    /\ result.hadManifest /\ manifest # {} /\ manifest = result.preManifest
    /\ ~recipe.strip

\* C31: a fetch that succeeds for a recipe with a git source and submodules
\* set has run the recursive submodule update on the working copy, after
\* the clone on first use as after the fetch of refs on reuse.
C31_SubmodulesAfterCloneAndFetch ==
    (result.cmd = "fetch" /\ Succeeded /\ recipe.vcs = VcsGit /\ recipe.submodules) =>
        /\ Has(log, "git_clone") => Before(log, "git_clone", "submodule_update")
        /\ Has(log, "git_fetch") => Before(log, "git_fetch", "submodule_update")

\* the files of the patch directory at entry 1 that the last invocation
\* started to apply, in the order it did
DirTried ==
    LET ams == SelectSeq(log, LAMBDA x : x.op = "am" /\ x.arg = 1 /\ x.file # 0)
    IN  [j \in 1..Len(ams) |-> ams[j].file]

\* no strategy applied file f
DirFailed(f) ==
    \E j \in 1..(Len(log) - 1) :
        log[j].op = "p0" /\ log[j].file = f /\ log[j + 1].op = "nonzero"

\* C32: a directory entry applies regular files of the directory with
\* extension .patch, .diff or .mbox only, in ascending name order whatever
\* the order of enumeration, none skipped and none twice; it goes on to the
\* next file only after a file that applied; when a file fails, no later
\* file and no later entry is tried and patch does not succeed; when none
\* fails, every such file has been applied and the next entry is tried.
C32_DirectoryAppliedSortedStopsAtFailure ==
    LET eligible == {pdir.listing[j].name : j \in
                        {k \in 1..Len(pdir.listing) :
                            /\ pdir.listing[k].regular
                            /\ pdir.listing[k].ext \in {".patch", ".diff", ".mbox"}}}
        n == Len(DirTried)
        next == \E j \in 1..Len(log) : log[j].op = "entry" /\ log[j].arg = 2
    IN  (result.cmd = "patch" /\ result.handler /\ Has(log, "entry")
            /\ recipe.patches[1] = PDir) =>
            /\ \A j \in 1..n : DirTried[j] \in eligible
            /\ \A j \in 1..(n - 1) : DirTried[j] < DirTried[j + 1] /\ ~DirFailed(DirTried[j])
            /\ \A j \in 1..n : \A f \in eligible :
                  f < DirTried[j] => \E k \in 1..(j - 1) : DirTried[k] = f
            /\ (n > 0 /\ DirFailed(DirTried[n])) => (~next /\ ~Succeeded)
            /\ ~(n > 0 /\ DirFailed(DirTried[n])) =>
                  (next /\ {DirTried[j] : j \in 1..n} = eligible)

C32_Witness ==
    /\ result.cmd = "patch" /\ result.handler
    /\ Len(pdir.listing) = 3
    /\ pdir.listing[1].name = 5 /\ pdir.listing[2].name = 4 /\ pdir.listing[3].name = 1
    /\ DirTried = <<1, 4>>
    /\ DirFailed(4)
    /\ \A j \in 1..Len(log) : log[j].arg # 2

\* C33: after every completed install or remove, if the manifest file
\* exists then each path it lists is a regular file under the installation
\* root.
C33_ManifestPathsExist ==
    ((IsInstall \/ IsRemove) /\ manifestExists) =>
        (destExists /\ manifest \subseteq (dest \cap Paths))

\* C34: a fetch that comes to a source whose destination file is already
\* present and whose digest differs from the checksum the code reads for
\* that position starts no download for it, reports the mismatch as its last
\* step, leaves the file as it is and does not succeed; a fetch that
\* succeeds has verified every position that has a checksum, downloaded in
\* this invocation or not.
C34_PresentArtifactVerified ==
    LET urls == split_list(recipe.url, NoUrl)
        sums == split_list(recipe.sha256, NoSum)
        dst(i) == source_paths(recipe)[i]
        at(op, i) == \E j \in 1..Len(log) : log[j] = EvAt(op, i)
        stale(i) == /\ i <= Len(sums)
                    /\ result.preSrc[dst(i)] \notin {Absent, sums[i]}
        reached(i) == \A j \in 1..(i - 1) : at("sha256_ok", j)
    IN  (result.cmd = "fetch" /\ result.handler /\ ~result.threw) =>
            /\ \A i \in 1..Len(urls) :
                  (stale(i) /\ reached(i)) =>
                      /\ ~at("curl", i)
                      /\ log # <<>> /\ log[Len(log)] = EvAt("sha256_differs", i)
                      /\ srcFiles[dst(i)] = result.preSrc[dst(i)]
                      /\ ~Succeeded
            /\ Succeeded => \A i \in 1..Len(sums) : at("sha256_ok", i)

C34_Witness ==
    /\ result.cmd = "fetch" /\ result.handler /\ ~result.threw
    /\ recipe.url = <<UrlA, UrlB>> /\ recipe.sha256 = <<UrlA.id>>
    /\ result.preSrc[UrlA.file] = Corrupt
    /\ log = <<EvAt("sha256_differs", 1)>>

\* C35: distinct urls of the recipe have distinct destination files, and
\* after a successful fetch there are as many artifacts as urls, the one
\* at each url's destination being what that url serves.
C35_DistinctUrlsDistinctFiles ==
    LET urls == split_list(recipe.url, NoUrl)
        dsts == source_paths(recipe)
        n == Len(urls)
    IN  (result.cmd = "fetch" /\ Succeeded
            /\ \A i, j \in 1..n : i # j => urls[i] # urls[j]) =>
            /\ \A i, j \in 1..n : i # j => dsts[i] # dsts[j]
            /\ Cardinality({dsts[i] : i \in 1..n}) = n
            /\ \A i \in 1..n :
                  result.preSrc[dsts[i]] = Absent => srcFiles[dsts[i]] \in {urls[i].id, Corrupt}

\* C36: a patch invocation for a recipe whose patches field is empty exits
\* 0, starts no command (no git init) and leaves the work tree, its existence
\* included, and everything else on disk as it was, whether or not the work
\* tree exists.
C36_EmptyPatchesNoEffect ==
    [][(result'.cmd = "patch" /\ result'.handler /\ runs' = runs + 1
            /\ recipe.patches = <<>>) =>
          /\ result'.kind = "exit" /\ result'.code = 0
          /\ log' = <<>>
          /\ UNCHANGED <<workExists, work, srcFiles, gitDir, destExists, dest,
                         manifestExists, manifest, snapZst, snapGz>>]_vars

C36_Witness ==
    /\ result.cmd = "patch" /\ result.handler /\ Succeeded
    /\ recipe.patches = <<>>
    /\ ~workExists /\ ~work.git /\ log = <<>>

\* C37: a remove that directly follows a remove that exited 0 exits 0 as
\* well and changes nothing on disk: the installation root stays absent and
\* the manifest file and both snapshot archives are as the first left them.
C37_RemoveTwiceAsOnce ==
    [][(IsRemove /\ Succeeded /\ result'.cmd = "remove" /\ result'.handler
            /\ runs' = runs + 1) =>
          /\ result'.kind = "exit" /\ result'.code = 0
          /\ ~destExists'
          /\ UNCHANGED <<destExists, dest, manifestExists, manifest, snapZst, snapGz>>]_vars

C37_Witness ==
    /\ IsRemove /\ Succeeded /\ ~result.preExists
    /\ ~destExists
    /\ manifestExists /\ manifest # {}
    /\ snapZst # NoArchive \/ snapGz # NoArchive

====
